---- MODULE Spec2Model ----
(***************************************************************************)
(* A model of the persistent vector PVec (src/index.js) and of its         *)
(* iterator PVecIterator.                                                  *)
(*                                                                         *)
(* JavaScript arrays live in a heap: an address is an index of `heap`, an  *)
(* array is the sequence of its slots, and two references are the same     *)
(* object exactly when they are the same address.  A slot is a tagged      *)
(* record: an element value, a reference to an array, undefined (also a    *)
(* hole of `new Array(n)`), or null.  Every operation of PVec is an        *)
(* operator from a heap and a vector to a heap and a result, written loop  *)
(* by loop after the source, and an action of the model applies one        *)
(* operation to the current vector.                                        *)
(*                                                                         *)
(* index.js fixes SHIFT = 5 (32 slots per node).  Every index computation  *)
(* of the source is written in terms of SHIFT, BRANCHING_FACTOR and MASK,  *)
(* and the two literals LOWER_BOUND = 33 and UPPER_BOUND = 64 are          *)
(* BRANCHING_FACTOR + 1 and 2 * BRANCHING_FACTOR.  The model keeps those   *)
(* relations and is checked with SHIFT = 1 (2 slots per node), so that     *)
(* tries of height 1 to 4 are within reach of the model checker.           *)
(***************************************************************************)
EXTENDS Integers, Sequences, FiniteSets, TLC

SHIFT == 1
BRANCHING_FACTOR == 2 ^ SHIFT
MASK == BRANCHING_FACTOR - 1
LOWER_BOUND == BRANCHING_FACTOR + 1
UPPER_BOUND == 2 * BRANCHING_FACTOR

(* Bounds of the model. *)
\* element values: 0 is the default value, 1 the distinguishing one
Vals == {0, 1}
\* calls of set, and pushes of a value other than 0, in one run; in a run
\* with iterators, the calls of push, pop and set made while an iterator is
\* held, and the iterators made after the first
MaxMarks == 1
\* longest sequence handed to concat
MaxConcat == 2

(***************************************************************************)
(* JavaScript values and arrays                                            *)
(***************************************************************************)
ValS(x) == [k |-> "val", v |-> x]
RefS(a) == [k |-> "ref", v |-> a]
Undef == [k |-> "undef", v |-> 0]
Null == [k |-> "null", v |-> 0]
\* the outcome of an expression that throws a TypeError
TypeErr == [k |-> "err", v |-> 0]
\* the outcome of a call that throws `new Error(...)`
Thrown == [k |-> "err", v |-> 1]

\* arr[k]: reading past the end (or a hole) yields undefined
ARead(arr, k) == IF k >= 0 /\ k < Len(arr) THEN arr[k + 1] ELSE Undef

\* arr[k] = s: writing past the end grows the array, leaving holes
AWrite(arr, k, s) ==
  IF k < Len(arr) THEN [arr EXCEPT ![k + 1] = s]
  ELSE arr \o [j \in 1..(k - Len(arr)) |-> Undef] \o <<s>>

\* new Array(n)
NewArray(n) == [j \in 1..n |-> Undef]

\* node[k] for a JavaScript value `node`: an array is read, a number has no
\* such property, undefined and null throw
Index(h, node, k) ==
  IF node.k = "ref" THEN ARead(h[node.v], k)
  ELSE IF node.k = "val" THEN Undef
  ELSE TypeErr

\* heap with h[a][k] = s
HWrite(h, a, k, s) == [h EXCEPT ![a] = AWrite(h[a], k, s)]

\* a spread that hands back the array itself instead of a copy of it
SpreadAlias(h, x) == [h |-> h, a |-> x.v, ok |-> x.k = "ref"]

\* [...x]: a fresh array with the slots of x; undefined, null and numbers are
\* not iterable
Spread(h, x) ==
  IF x.k = "ref" THEN [h |-> Append(h, h[x.v]), a |-> Len(h) + 1, ok |-> TRUE]
  ELSE [h |-> h, a |-> 0, ok |-> FALSE]

(***************************************************************************)
(* Bit arithmetic on non-negative integers (and x & MASK, x & ~MASK on any)*)
(***************************************************************************)
\* x >>> n
Shr(x, n) == x \div (2 ^ n)
\* x & MASK
AndMask(x) == x % BRANCHING_FACTOR
\* x & ~MASK
AndNotMask(x) == x - (x % BRANCHING_FACTOR)

RECURSIVE Xor(_, _)
\* a ^ b
Xor(a, b) ==
  IF a = 0 /\ b = 0 THEN 0
  ELSE (((a % 2) + (b % 2)) % 2) + (2 * Xor(a \div 2, b \div 2))

(***************************************************************************)
(* PVec                                                                    *)
(***************************************************************************)
\* new PVec(size, shift, root, tail); root and tail are JavaScript values
PVec(size, shift, root, tail) ==
  [size |-> size, shift |-> shift, root |-> root, tail |-> tail]

\* the arrays of PVec.#EMPTY_VEC are the first two of the heap
EMPTY_VEC == PVec(0, 0, RefS(1), RefS(2))

\* a bounds check that lets the index `size` through
BoundsCheckLoose(v, index) == index > v.size \/ index < 0

\* #boundsCheck throws
BoundsCheck(v, index) == index >= v.size \/ index < 0

TailOffset(v) == AndNotMask(v.size - 1)

TailSize(v) == IF v.size = 0 THEN 0 ELSE AndMask(v.size - 1) + 1

\* results of an operation: the heap after it, the returned vector (the
\* operand itself when the call threw), and whether it returned
Ok(h, v) == [h |-> h, vec |-> v, ok |-> TRUE]
Fail(h, v) == [h |-> h, vec |-> v, ok |-> FALSE]

RECURSIVE Walk(_, _, _, _)
\* the loop of get: descend from `node` while level > 0
Walk(h, node, i, level) ==
  IF level > 0
  THEN Walk(h, Index(h, node, AndMask(Shr(i, level))), i, level - SHIFT)
  ELSE node

Get(h, v, i) ==
  IF BoundsCheck(v, i) THEN Thrown
  ELSE IF i >= TailOffset(v) THEN Index(h, v.tail, AndMask(i))
  ELSE Index(h, Walk(h, v.root, i, v.shift), AndMask(i))

RECURSIVE SetLoop(_, _, _, _, _)
\* the loop of set; node is the address of the clone being filled
SetLoop(h, node, i, val, level) ==
  IF level > 0 THEN
    LET subidx == AndMask(Shr(i, level))
        c == Spread(h, ARead(h[node], subidx))
    IN  IF ~c.ok THEN [h |-> h, ok |-> FALSE]
        ELSE SetLoop(HWrite(c.h, node, subidx, RefS(c.a)), c.a, i, val, level - SHIFT)
  ELSE [h |-> HWrite(h, node, AndMask(i), ValS(val)), ok |-> TRUE]

\* a set that writes a tail element one slot too far
SetWrongSlot(h, v, i, val) ==
  IF BoundsCheck(v, i) THEN Fail(h, v)
  ELSE IF i >= TailOffset(v) THEN
    LET c == Spread(h, v.tail)
    IN  IF ~c.ok THEN Fail(h, v)
        ELSE Ok(HWrite(c.h, c.a, AndMask(i + 1), ValS(val)),
                PVec(v.size, v.shift, v.root, RefS(c.a)))
  ELSE
    LET c == Spread(h, v.root)
        r == IF c.ok THEN SetLoop(c.h, c.a, i, val, v.shift) ELSE [h |-> h, ok |-> FALSE]
    IN  IF r.ok THEN Ok(r.h, PVec(v.size, v.shift, RefS(c.a), v.tail))
        ELSE Fail(r.h, v)

\* a set that, for a tail element, clones the root as well
SetClonesRoot(h, v, i, val) ==
  IF BoundsCheck(v, i) THEN Fail(h, v)
  ELSE IF i >= TailOffset(v) THEN
    LET c == Spread(h, v.tail)
        d == Spread(c.h, v.root)
    IN  IF ~c.ok \/ ~d.ok THEN Fail(h, v)
        ELSE Ok(HWrite(d.h, c.a, AndMask(i), ValS(val)),
                PVec(v.size, v.shift, RefS(d.a), RefS(c.a)))
  ELSE
    LET c == Spread(h, v.root)
        r == IF c.ok THEN SetLoop(c.h, c.a, i, val, v.shift) ELSE [h |-> h, ok |-> FALSE]
    IN  IF r.ok THEN Ok(r.h, PVec(v.size, v.shift, RefS(c.a), v.tail))
        ELSE Fail(r.h, v)

Set(h, v, i, val) ==
  IF BoundsCheck(v, i) THEN Fail(h, v)
  ELSE IF i >= TailOffset(v) THEN
    LET c == Spread(h, v.tail)
    IN  IF ~c.ok THEN Fail(h, v)
        ELSE Ok(HWrite(c.h, c.a, AndMask(i), ValS(val)),
                PVec(v.size, v.shift, v.root, RefS(c.a)))
  ELSE
    LET c == Spread(h, v.root)
        r == IF c.ok THEN SetLoop(c.h, c.a, i, val, v.shift) ELSE [h |-> h, ok |-> FALSE]
    IN  IF r.ok THEN Ok(r.h, PVec(v.size, v.shift, RefS(c.a), v.tail))
        ELSE Fail(r.h, v)

RECURSIVE NewPath(_, _, _)
\* #newPath(levels, tail): the loop, from the value `top` upwards
NewPath(h, levels, top) ==
  IF levels > 0
  THEN NewPath(Append(h, AWrite(NewArray(BRANCHING_FACTOR), 0, top)),
               levels - SHIFT, RefS(Len(h) + 1))
  ELSE [h |-> h, top |-> top]

RECURSIVE PushLeafLoop(_, _, _, _, _)
\* the loop of #pushLeaf and the write after it; node is the address of the
\* clone being filled
PushLeafLoop(h, node, i, tail, level) ==
  IF level > SHIFT THEN
    LET subidx == AndMask(Shr(i, level))
        child == ARead(h[node], subidx)
    IN  IF child = Null THEN
          LET p == NewPath(h, level - SHIFT, tail)
          IN  [h |-> HWrite(p.h, node, subidx, p.top), ok |-> TRUE]
        ELSE
          LET c == Spread(h, child)
          IN  IF ~c.ok THEN [h |-> h, ok |-> FALSE]
              ELSE PushLeafLoop(HWrite(c.h, node, subidx, RefS(c.a)), c.a, i, tail,
                                level - SHIFT)
  ELSE [h |-> HWrite(h, node, AndMask(Shr(i, SHIFT)), tail), ok |-> TRUE]

\* a #pushLeaf that puts the tail where the leaf before it is
PushLeafOneBack(h, shift, i, root, tail) ==
  LET c == Spread(h, root)
      r == IF c.ok THEN PushLeafLoop(c.h, c.a, i - BRANCHING_FACTOR, tail, shift)
           ELSE [h |-> h, ok |-> FALSE]
  IN  [h |-> r.h, root |-> RefS(c.a), ok |-> r.ok]

\* #pushLeaf(shift, i, root, tail): [h, root, ok]
PushLeaf(h, shift, i, root, tail) ==
  LET c == Spread(h, root)
      r == IF c.ok THEN PushLeafLoop(c.h, c.a, i, tail, shift) ELSE [h |-> h, ok |-> FALSE]
  IN  [h |-> r.h, root |-> RefS(c.a), ok |-> r.ok]

\* a growth decided one leaf too early
GrowsEarly(v) == Shr(v.size, SHIFT) >= 2 ^ v.shift

\* a growth decided one leaf too late
GrowsLate(v) == Shr(v.size, SHIFT) > (2 ^ v.shift) + 1

\* push decides to grow the trie by one level
Grows(v) == Shr(v.size, SHIFT) > 2 ^ v.shift

Push(h, v, val) ==
  IF TailSize(v) # BRANCHING_FACTOR THEN
    LET c == Spread(h, v.tail)
    IN  IF ~c.ok THEN Fail(h, v)
        ELSE Ok(HWrite(c.h, c.a, Len(c.h[c.a]), ValS(val)),
                PVec(v.size + 1, v.shift, v.root, RefS(c.a)))
  ELSE
    LET h1 == Append(h, <<ValS(val)>>)
        newTail == RefS(Len(h) + 1)
    IN  IF v.size = BRANCHING_FACTOR THEN Ok(h1, PVec(v.size + 1, 0, v.tail, newTail))
        ELSE IF Grows(v) THEN
          LET h2 == Append(h1, NewArray(BRANCHING_FACTOR))
              newRoot == Len(h1) + 1
              p == NewPath(HWrite(h2, newRoot, 0, v.root), v.shift, v.tail)
          IN  Ok(HWrite(p.h, newRoot, 1, p.top),
                 PVec(v.size + 1, v.shift + SHIFT, RefS(newRoot), newTail))
        ELSE
          LET r == PushLeaf(h1, v.shift, v.size - 1, v.root, v.tail)
          IN  IF r.ok THEN Ok(r.h, PVec(v.size + 1, v.shift, r.root, newTail))
              ELSE Fail(r.h, v)

\* a lowering that takes the tail from under the first child of the root
LowerTrieFirstChild(h, v) ==
  LET lowerShift == v.shift - SHIFT
      newRoot == Index(h, v.root, 0)
      node == Walk(h, Index(h, v.root, 0), 0, lowerShift)
  IN  IF newRoot.k = "err" \/ node.k = "err" THEN Fail(h, v)
      ELSE Ok(h, PVec(v.size - 1, lowerShift, newRoot, node))

\* a lowering by two levels
LowerTrieTwice(h, v) ==
  LET lowerShift == v.shift - (2 * SHIFT)
      newRoot == Index(h, v.root, 0)
      node == Walk(h, Index(h, v.root, 1), 0, lowerShift)
  IN  IF newRoot.k = "err" \/ node.k = "err" THEN Fail(h, v)
      ELSE Ok(h, PVec(v.size - 1, lowerShift, newRoot, node))

\* #lowerTrie()
LowerTrie(h, v) ==
  LET lowerShift == v.shift - SHIFT
      newRoot == Index(h, v.root, 0)
      node == Walk(h, Index(h, v.root, 1), 0, lowerShift)
  IN  IF newRoot.k = "err" \/ node.k = "err" THEN Fail(h, v)
      ELSE Ok(h, PVec(v.size - 1, lowerShift, newRoot, node))

RECURSIVE PopTrieLoop(_, _, _, _, _, _)
\* the loop of #popTrie; node is a JavaScript value: [h, node, ok]
PopTrieLoop(h, node, newTrieSize, diverges, level, hasDiverged) ==
  IF level > 0 THEN
    LET subIndex == AndMask(Shr(newTrieSize, level))
        child == Index(h, node, subIndex)
    IN  IF child.k = "err" THEN [h |-> h, node |-> node, ok |-> FALSE]
        ELSE IF hasDiverged THEN
          PopTrieLoop(h, child, newTrieSize, diverges, level - SHIFT, TRUE)
        ELSE IF Shr(diverges, level) # 0 THEN
          PopTrieLoop(HWrite(h, node.v, subIndex, Null), child, newTrieSize, diverges,
                      level - SHIFT, TRUE)
        ELSE
          LET c == Spread(h, child)
          IN  IF ~c.ok THEN [h |-> h, node |-> node, ok |-> FALSE]
              ELSE PopTrieLoop(HWrite(c.h, node.v, subIndex, RefS(c.a)), RefS(c.a),
                               newTrieSize, diverges, level - SHIFT, FALSE)
  ELSE [h |-> h, node |-> node, ok |-> TRUE]

\* #popTrie()
PopTrie(h, v) ==
  LET newTrieSize == v.size - LOWER_BOUND
      diverges == Xor(newTrieSize, newTrieSize - 1)
      c == Spread(h, v.root)
      r == IF c.ok THEN PopTrieLoop(c.h, RefS(c.a), newTrieSize, diverges, v.shift, FALSE)
           ELSE [h |-> h, node |-> Undef, ok |-> FALSE]
  IN  IF r.ok THEN Ok(r.h, PVec(v.size - 1, v.shift, RefS(c.a), r.node))
      ELSE Fail(r.h, v)

\* a slice that keeps the whole array
SliceAll(arr) == arr

\* tail.slice(0, tail.length - 1)
SliceLast(arr) == SubSeq(arr, 1, Len(arr) - 1)

\* a pop that never lowers the trie
PopKeepsShift(h, v) ==
  IF v.size = 0 THEN Fail(h, v)
  ELSE IF v.size = 1 THEN Ok(h, EMPTY_VEC)
  ELSE IF AndMask(v.size - 1) > 0 THEN
    IF v.tail.k # "ref" THEN Fail(h, v)
    ELSE Ok(Append(h, SliceLast(h[v.tail.v])),
            PVec(v.size - 1, v.shift, v.root, RefS(Len(h) + 1)))
  ELSE
    LET newTrieSize == v.size - LOWER_BOUND
    IN  IF newTrieSize = 0
        THEN Ok(Append(h, <<>>), PVec(BRANCHING_FACTOR, 0, RefS(Len(h) + 1), v.root))
        ELSE PopTrie(h, v)

Pop(h, v) ==
  IF v.size = 0 THEN Fail(h, v)
  ELSE IF v.size = 1 THEN Ok(h, EMPTY_VEC)
  ELSE IF AndMask(v.size - 1) > 0 THEN
    IF v.tail.k # "ref" THEN Fail(h, v)
    ELSE Ok(Append(h, SliceLast(h[v.tail.v])),
            PVec(v.size - 1, v.shift, v.root, RefS(Len(h) + 1)))
  ELSE
    LET newTrieSize == v.size - LOWER_BOUND
    IN  IF newTrieSize = 0
        THEN Ok(Append(h, <<>>), PVec(BRANCHING_FACTOR, 0, RefS(Len(h) + 1), v.root))
        ELSE IF newTrieSize = 2 ^ v.shift THEN LowerTrie(h, v)
        ELSE PopTrie(h, v)

RECURSIVE ConcatLoop(_, _, _)
\* the loop of concat: push every element of the iterable in turn
ConcatLoop(h, p, other) ==
  IF other = <<>> THEN Ok(h, p)
  ELSE LET r == Push(h, p, Head(other))
       IN  IF r.ok THEN ConcatLoop(r.h, r.vec, Tail(other)) ELSE r

\* concat(other); a push that throws ends the call
Concat(h, v, other) ==
  LET r == ConcatLoop(h, v, other)
  IN  IF r.ok THEN r ELSE Fail(r.h, v)

(***************************************************************************)
(* PVecIterator                                                            *)
(***************************************************************************)
RECURSIVE SeedStack(_, _, _)
\* the loop of the constructor: stack[i] = stack[i + 1][0] for i down to 0;
\* stack is the address of this.#stack
SeedStack(h, stack, i) ==
  IF i >= 0
  THEN SeedStack(HWrite(h, stack, i, Index(h, ARead(h[stack], i + 1), 0)), stack, i - 1)
  ELSE h

\* an iterator that takes the root of the vector for its stack
NewIteratorOnRoot(h, size, shift, root, tail) ==
  LET n == shift \div SHIFT
      h2 == Append(h, <<>>)
      it0 == [index |-> 0, size |-> size, tail |-> tail, jump |-> BRANCHING_FACTOR,
              stack |-> root, leaf |-> Undef]
  IN  IF size <= BRANCHING_FACTOR
      THEN [h |-> h2, it |-> [it0 EXCEPT !.leaf = tail], ok |-> TRUE]
      ELSE IF size <= UPPER_BOUND
      THEN [h |-> h2, it |-> [it0 EXCEPT !.leaf = root], ok |-> TRUE]
      ELSE
        LET h3 == IF n >= 1 THEN HWrite(h2, root.v, n - 1, root) ELSE h2
            h4 == SeedStack(h3, root.v, n - 2)
            leaf == Index(h4, ARead(h4[root.v], 0), 0)
        IN  [h |-> h4, it |-> [it0 EXCEPT !.leaf = leaf], ok |-> leaf.k # "err"]

\* new PVecIterator(size, shift, root, tail): [h, it, ok]; the stack, and the
\* one empty array that fills it, are arrays of the heap
NewIterator(h, size, shift, root, tail) ==
  LET filler == Len(h) + 1
      stack == Len(h) + 2
      n == shift \div SHIFT
      h2 == h \o << <<>>, [j \in 1..n |-> RefS(filler)] >>
      it0 == [index |-> 0, size |-> size, tail |-> tail, jump |-> BRANCHING_FACTOR,
              stack |-> RefS(stack), leaf |-> Undef]
  IN  IF size <= BRANCHING_FACTOR
      THEN [h |-> h2, it |-> [it0 EXCEPT !.leaf = tail], ok |-> TRUE]
      ELSE IF size <= UPPER_BOUND
      THEN [h |-> h2, it |-> [it0 EXCEPT !.leaf = root], ok |-> TRUE]
      ELSE
        LET h3 == IF n >= 1 THEN HWrite(h2, stack, n - 1, root) ELSE h2
            h4 == SeedStack(h3, stack, n - 2)
            leaf == Index(h4, ARead(h4[stack], 0), 0)
        IN  [h |-> h4, it |-> [it0 EXCEPT !.leaf = leaf],
             ok |-> leaf.k # "err" /\ \A j \in 1..Len(h4[stack]) : h4[stack][j].k # "err"]

RECURSIVE StackUpdates(_, _)
\* the first while loop of next: how many stack entries are stale
StackUpdates(diff, level) ==
  IF Shr(diff, level) # 0 THEN 1 + StackUpdates(diff, level + SHIFT) ELSE 0

RECURSIVE Refresh(_, _, _, _, _)
\* the second while loop of next, on the stack at address `stack`
Refresh(h, stack, index, stackUpdates, level) ==
  IF stackUpdates > 0
  THEN Refresh(HWrite(h, stack, stackUpdates - 1,
                      Index(h, ARead(h[stack], stackUpdates), AndMask(Shr(index, level)))),
               stack, index, stackUpdates - 1, level - SHIFT)
  ELSE h

\* an iterator that never leaves its first leaf
JumpNever(h, it) == [h |-> h, it |-> it]

\* a leaf-boundary block that forgets `level -= SHIFT` between its loops
JumpWrongLevel(h, it) ==
  IF it.index # it.jump THEN [h |-> h, it |-> it]
  ELSE IF it.index >= AndNotMask(it.size - 1)
  THEN [h |-> h, it |-> [it EXCEPT !.leaf = it.tail]]
  ELSE
    LET diff == Xor(it.index, it.index - 1)
        stackUpdates == StackUpdates(diff, 2 * SHIFT)
        level == (2 * SHIFT) + (stackUpdates * SHIFT)
        h1 == Refresh(h, it.stack.v, it.index, stackUpdates, level)
    IN  [h |-> h1,
         it |-> [it EXCEPT !.jump = it.jump + BRANCHING_FACTOR,
                           !.leaf = Index(h1, ARead(h1[it.stack.v], 0),
                                          AndMask(Shr(it.index, SHIFT)))]]

\* the leaf-boundary block of next: [h, it]
Jump(h, it) ==
  IF it.index # it.jump THEN [h |-> h, it |-> it]
  ELSE IF it.index >= AndNotMask(it.size - 1)
  THEN [h |-> h, it |-> [it EXCEPT !.leaf = it.tail]]
  ELSE
    LET diff == Xor(it.index, it.index - 1)
        stackUpdates == StackUpdates(diff, 2 * SHIFT)
        level == (2 * SHIFT) + (stackUpdates * SHIFT) - SHIFT
        h1 == Refresh(h, it.stack.v, it.index, stackUpdates, level)
    IN  [h |-> h1,
         it |-> [it EXCEPT !.jump = it.jump + BRANCHING_FACTOR,
                           !.leaf = Index(h1, ARead(h1[it.stack.v], 0),
                                          AndMask(Shr(it.index, SHIFT)))]]

\* next(): [h, it, done, value]; value is a TypeErr when the call throws
IteratorNext(h, it) ==
  IF it.index = it.size THEN [h |-> h, it |-> it, done |-> TRUE, value |-> Undef]
  ELSE
    LET j == Jump(h, it)
    IN  [h |-> j.h, it |-> [j.it EXCEPT !.index = j.it.index + 1], done |-> FALSE,
         value |-> Index(j.h, j.it.leaf, AndMask(j.it.index))]

RECURSIVE Calls(_, _, _)
\* the results {done, value} of n successive calls of next()
Calls(h, it, n) ==
  IF n = 0 THEN <<>>
  ELSE LET r == IteratorNext(h, it)
       IN  <<[done |-> r.done, value |-> r.value]>> \o Calls(r.h, r.it, n - 1)

RECURSIVE ForOf(_, _, _)
\* for (const x of it) out.push(x)
ForOf(h, it, out) ==
  LET r == IteratorNext(h, it)
  IN  IF r.done \/ r.value.k = "err" THEN out \o (IF r.done THEN <<>> ELSE <<r.value>>)
      ELSE ForOf(r.h, r.it, Append(out, r.value))

\* v[Symbol.iterator]()
Iterator(h, v) == NewIterator(h, v.size, v.shift, v.root, v.tail)

\* toArray(): the array of yielded slots (ending in a TypeErr if a call threw)
ToArray(h, v) ==
  LET c == Iterator(h, v)
  IN  IF c.ok THEN ForOf(c.h, c.it, <<>>) ELSE <<TypeErr>>

\* an equality that compares sizes only
IsEqualToSizeOnly(h, v, other) == v.size = other.size

\* isEqualTo(other)
IsEqualTo(h, v, other) ==
  IF v.size # other.size THEN FALSE
  ELSE \A i \in 0..(v.size - 1) : Get(h, v, i) = Get(h, other, i)

\* a peek that asks get whatever the size
PeekStrict(h, v) == Get(h, v, v.size - 1)

\* peek()
Peek(h, v) == IF v.size > 0 THEN Get(h, v, v.size - 1) ELSE Null

(***************************************************************************)
(* The heap kept by the model: the arrays reachable from the vectors the   *)
(* caller still holds, named in the order a walk from those vectors meets  *)
(* them (what no vector reaches is garbage and no operation can touch it). *)
(***************************************************************************)
RECURSIVE Visit(_, _, _)
RECURSIVE VisitSlots(_, _, _, _)
\* m.order lists the addresses met so far and m.pos[a] is the place of a in
\* it (0: not met); the walk goes on from the value s
Visit(h, m, s) ==
  IF s.k # "ref" THEN m
  ELSE IF m.pos[s.v] # 0 THEN m
  ELSE VisitSlots(h, [pos |-> [m.pos EXCEPT ![s.v] = Len(m.order) + 1],
                      order |-> Append(m.order, s.v)], h[s.v], 1)

VisitSlots(h, m, arr, j) ==
  IF j > Len(arr) THEN m
  ELSE VisitSlots(h, Visit(h, m, arr[j]), arr, j + 1)

RECURSIVE VisitAll(_, _, _)
VisitAll(h, m, roots) ==
  IF roots = <<>> THEN m
  ELSE VisitAll(h, Visit(h, m, Head(roots)), Tail(roots))

\* the walk from the values `roots`
Reachable(h, roots) == VisitAll(h, [pos |-> [a \in 1..Len(h) |-> 0], order |-> <<>>], roots)

RenS(m, s) == IF s.k = "ref" THEN RefS(m.pos[s.v]) ELSE s

RenVec(m, v) == [v EXCEPT !.root = RenS(m, v.root), !.tail = RenS(m, v.tail)]

Compact(h, m) ==
  [a \in 1..Len(m.order) |->
     [j \in 1..Len(h[m.order[a]]) |-> RenS(m, h[m.order[a]][j])]]

VecRoots(v) == <<v.root, v.tail>>

(***************************************************************************)
(* State                                                                   *)
(***************************************************************************)
VARIABLES
  heap,   \* the arrays
  cur,    \* the vector the caller works on: the result of the last call
  prev,   \* the vector the last call was made on
  base,   \* the vector a push was made on, kept over that push and a pop
          \* that directly follows it (EMPTY_VEC otherwise)
  ref,    \* ordinary arrays holding what cur, prev and base should hold
  seen,   \* what get returned at every index of prev and of base while each
          \* was the caller's current vector
  last,   \* the last call: its name, arguments and outcome
  out,    \* what the last call returned, when it returned no vector
  marks,  \* the calls so far that MaxMarks counts
  its     \* the iterators the caller holds, in the order it made them, each
          \* with the vector it is over, what get returned on that vector
          \* when it was made, what it has yielded, whether its last call of
          \* next said done, and its stack as it was before that call

vars == <<heap, cur, prev, base, ref, seen, last, out, marks, its>>

\* get at every index of v
Gets(h, v) == [j \in 1..v.size |-> Get(h, v, j - 1)]

\* an ordinary array as get would return its elements
RefSeq(a) == [j \in 1..Len(a) |-> ValS(a[j])]

Call(op, i, x) ==
  [op |-> op, i |-> i, x |-> x, ok |-> TRUE, alloc |-> 0, dirty |-> 0, rt |-> FALSE]

Init ==
  /\ heap = << <<>>, <<>> >>
  /\ cur = EMPTY_VEC
  /\ prev = EMPTY_VEC
  /\ base = EMPTY_VEC
  /\ ref = [cur |-> <<>>, prev |-> <<>>, base |-> <<>>]
  /\ seen = [prev |-> <<>>, base |-> <<>>]
  /\ last = Call("empty", 0, 0)
  /\ out = <<>>
  /\ marks = 0
  /\ its = <<>>

\* what an iterator and the record kept with it refer to
CursorRoots(c) == <<c.it.stack, c.it.leaf, c.it.tail>> \o VecRoots(c.over)

RECURSIVE ItsRoots(_)
ItsRoots(cs) == IF cs = <<>> THEN <<>> ELSE CursorRoots(Head(cs)) \o ItsRoots(Tail(cs))

RenIts(m, cs) ==
  [k \in 1..Len(cs) |->
     [cs[k] EXCEPT !.it.stack = RenS(m, @), !.it.leaf = RenS(m, @), !.it.tail = RenS(m, @),
                   !.over = RenVec(m, @),
                   !.before = [j \in 1..Len(@) |-> RenS(m, @[j])]]]

\* The caller made `call` on cur and got r: the values of the variables when
\* it now holds the result and the operand, and as base the operand (keep =
\* "operand"), the base it held (keep = "base") or nothing; newRef is what
\* the result should hold, result what a call that returns no vector gave.
Returned(call, r, newRef, keep, result) ==
  LET kept == IF keep = "operand" THEN cur ELSE IF keep = "base" THEN base ELSE EMPTY_VEC
      m == Reachable(r.h, <<RefS(1), RefS(2)>> \o VecRoots(r.vec)
                          \o VecRoots(cur) \o VecRoots(kept) \o ItsRoots(its))
  IN  [heap |-> Compact(r.h, m),
       its |-> RenIts(m, its),
       cur |-> RenVec(m, r.vec),
       prev |-> RenVec(m, cur),
       base |-> RenVec(m, kept),
       ref |-> [cur |-> IF r.ok THEN newRef ELSE ref.cur,
                prev |-> ref.cur,
                base |-> IF keep = "operand" THEN ref.cur
                         ELSE IF keep = "base" THEN ref.base ELSE <<>>],
       seen |-> [prev |-> Gets(heap, cur),
                 base |-> IF keep = "operand" THEN Gets(heap, cur)
                          ELSE IF keep = "base" THEN seen.base ELSE <<>>],
       last |-> [call EXCEPT !.ok = r.ok,
                             !.alloc = Len(r.h) - Len(heap),
                             !.dirty = Cardinality({a \in 1..Len(heap) : r.h[a] # heap[a]}),
                             !.rt = (keep = "base")],
       out |-> result]

Becomes(s) ==
  /\ heap' = s.heap
  /\ cur' = s.cur
  /\ prev' = s.prev
  /\ base' = s.base
  /\ ref' = s.ref
  /\ seen' = s.seen
  /\ last' = s.last
  /\ out' = s.out
  /\ its' = s.its

Ones(xs) == Cardinality({j \in 1..Len(xs) : xs[j] # 0})

PushResult(x) ==
  LET r == Push(heap, cur, x)
  IN  Returned(Call("push", cur.size, x), r, Append(ref.cur, x),
               IF r.ok THEN "operand" ELSE "none", <<>>)

\* push(x)
PushAct(x) ==
  /\ x = 0 \/ marks < MaxMarks
  /\ \E s \in {PushResult(x)} :
       /\ Becomes(s)
       /\ marks' = IF s.last.ok /\ x # 0 THEN marks + 1 ELSE marks

PopResult ==
  LET r == Pop(heap, cur)
  IN  Returned(Call("pop", 0, 0), r, SubSeq(ref.cur, 1, Len(ref.cur) - 1),
               IF r.ok /\ last.op = "push" /\ last.ok THEN "base" ELSE "none", <<>>)

\* pop()
PopAct ==
  \E s \in {PopResult} : Becomes(s) /\ marks' = marks

\* the indices handed to set: every valid one, and three that are not
SetIdx(v) == (0..(v.size - 1)) \cup {-1, v.size, v.size + 50}

SetResult(i, x) ==
  Returned(Call("set", i, x), Set(heap, cur, i, x),
           IF i < 0 \/ i >= Len(ref.cur) THEN ref.cur ELSE [ref.cur EXCEPT ![i + 1] = x],
           "none", <<>>)

\* set(i, x)
SetAct(i, x) ==
  /\ marks < MaxMarks
  /\ \E s \in {SetResult(i, x)} : Becomes(s) /\ marks' = marks + 1

\* the sequences handed to concat: a value followed by default values
ConcatArgs == {[j \in 1..n |-> IF j = 1 THEN x ELSE 0] : n \in 1..MaxConcat, x \in Vals}

ConcatResult(other) ==
  Returned(Call("concat", Len(other), Ones(other)), Concat(heap, cur, other),
           ref.cur \o other, "none", <<>>)

\* concat(other)
ConcatAct(other) ==
  /\ marks + Ones(other) <= MaxMarks
  /\ \E s \in {ConcatResult(other)} :
       /\ Becomes(s)
       /\ marks' = IF s.last.ok THEN marks + Ones(other) ELSE marks

\* the indices handed to get: the last valid one, and three that are not
GetIdx(v) == {-1, v.size - 1, v.size, v.size + 50}

GetResult(i) ==
  LET g == Get(heap, cur, i)
  IN  Returned(Call("get", i, 0), [h |-> heap, vec |-> cur, ok |-> g.k # "err"],
               ref.cur, "none", <<g>>)

\* get(i), kept by the caller in out
GetAct(i) ==
  \E s \in {GetResult(i)} : Becomes(s) /\ marks' = marks

ToArrayResult ==
  LET a == ToArray(heap, cur)
  IN  Returned(Call("toArray", 0, 0),
               [h |-> heap, vec |-> cur, ok |-> \A j \in 1..Len(a) : a[j].k # "err"],
               ref.cur, "none", a)

\* toArray(), kept by the caller in out
ToArrayAct ==
  \E s \in {ToArrayResult} : Becomes(s) /\ marks' = marks

PeekResult ==
  LET g == Peek(heap, cur)
  IN  Returned(Call("peek", 0, 0), [h |-> heap, vec |-> cur, ok |-> g.k # "err"],
               ref.cur, "none", <<g>>)

\* peek(), kept by the caller in out
PeekAct ==
  \E s \in {PeekResult} : Becomes(s) /\ marks' = marks

Next ==
  \/ \E x \in Vals : PushAct(x)
  \/ PopAct
  \/ \E i \in SetIdx(cur), x \in Vals : SetAct(i, x)
  \/ \E other \in ConcatArgs : ConcatAct(other)
  \/ \E i \in GetIdx(cur) : GetAct(i)
  \/ ToArrayAct
  \/ PeekAct

Spec == Init /\ [][Next]_vars

(***************************************************************************)
(* Iterators held while vectors are derived: the caller fills a vector      *)
(* with the values 0, 1, 2, ..., makes iterators over the vector it holds,  *)
(* and from the first iterator on calls next() on them and push, pop and    *)
(* set on the vector in any order.                                          *)
(***************************************************************************)
\* The caller made `call` on an iterator: h is the heap after it, cs the
\* iterators after it, own the address of the stack of the iterator the call
\* was made on (0 when the call made the iterator), result what it returned.
Iterated(call, h, cs, own, result) ==
  LET m == Reachable(h, <<RefS(1), RefS(2)>> \o VecRoots(cur) \o VecRoots(prev)
                        \o VecRoots(base) \o ItsRoots(cs))
  IN  [heap |-> Compact(h, m),
       its |-> RenIts(m, cs),
       cur |-> RenVec(m, cur),
       prev |-> RenVec(m, prev),
       base |-> RenVec(m, base),
       ref |-> ref,
       seen |-> seen,
       last |-> [call EXCEPT !.alloc = Len(h) - Len(heap),
                             !.dirty = Cardinality({a \in 1..Len(heap) :
                                                      a # own /\ h[a] # heap[a]})],
       out |-> result]

NewCursorResult ==
  LET c == Iterator(heap, cur)
      made == [it |-> c.it, over |-> cur, want |-> Gets(heap, cur), got |-> <<>>,
               done |-> FALSE, before |-> c.h[c.it.stack.v]]
  IN  Iterated([Call("iterator", 0, 0) EXCEPT !.ok = c.ok],
               c.h, Append(its, made), 0, <<>>)

\* cur[Symbol.iterator](); an iterator made while another is held counts
\* for MaxMarks
NewCursorAct ==
  /\ its = <<>> \/ marks < MaxMarks
  /\ \E s \in {NewCursorResult} :
       Becomes(s) /\ marks' = IF its = <<>> THEN marks ELSE marks + 1

NextCursorResult(k) ==
  LET c == its[k]
      r == IteratorNext(heap, c.it)
      stepped == [c EXCEPT !.it = r.it,
                           !.got = IF r.done THEN @ ELSE Append(@, r.value),
                           !.done = r.done,
                           !.before = heap[c.it.stack.v]]
  IN  Iterated([Call("next", 0, 0) EXCEPT !.ok = (r.value.k # "err")],
               r.h, [its EXCEPT ![k] = stepped], c.it.stack.v, <<>>)

\* next() on the k-th iterator
NextCursorAct(k) ==
  \E s \in {NextCursorResult(k)} : Becomes(s) /\ marks' = marks

\* push of the next number, while no iterator is held
FillAct ==
  /\ its = <<>>
  /\ \E s \in {PushResult(cur.size)} : Becomes(s) /\ marks' = marks

\* push, while iterators are held
DerivePushAct ==
  /\ its # <<>>
  /\ marks < MaxMarks
  /\ \E s \in {PushResult(cur.size)} : Becomes(s) /\ marks' = marks + 1

\* pop, while iterators are held
DerivePopAct ==
  /\ its # <<>>
  /\ marks < MaxMarks
  /\ \E s \in {PopResult} : Becomes(s) /\ marks' = marks + 1

\* the indices set while iterators are held: the last, and those the
\* iterators are at
DeriveIdx ==
  ({cur.size - 1} \cup {its[k].it.index : k \in 1..Len(its)}) \cap (0..(cur.size - 1))

\* set(i, i + 1), while iterators are held
DeriveSetAct(i) ==
  /\ its # <<>>
  /\ marks < MaxMarks
  /\ \E s \in {SetResult(i, i + 1)} : Becomes(s) /\ marks' = marks + 1

CursorNext ==
  \/ FillAct
  \/ NewCursorAct
  \/ \E k \in 1..Len(its) : NextCursorAct(k)
  \/ DerivePushAct
  \/ DerivePopAct
  \/ \E i \in DeriveIdx : DeriveSetAct(i)

CursorSpec == Init /\ [][CursorNext]_vars

(***************************************************************************)
(* Properties                                                              *)
(***************************************************************************)
\* the number of levels of the trie of v, leaves included
Height(v) == (v.shift \div SHIFT) + 1

\* the last call was op and returned
Did(op) == last.op = op /\ last.ok

\* C1 (persistence): whatever the last call was, it wrote into no array that
\* existed before it, and the vector it was made on, and the vector kept from
\* before a push and the pop after it, still have the size and return at
\* every index the value they had when the caller last read them.
C1_Persistence ==
  /\ last.dirty = 0
  /\ Gets(heap, prev) = seen.prev
  /\ Gets(heap, base) = seen.base
  /\ prev.size = Len(ref.prev)
  /\ base.size = Len(ref.base)

\* a set, a push or a pop has returned a new vector of a trie of height 3 or
\* more, and the vector from before the two last calls is still held
C1_Witness ==
  /\ last.rt
  /\ last.ok
  /\ prev.shift >= 2 * SHIFT
  /\ base.size > UPPER_BOUND
  /\ seen.base # <<>>
  /\ \E j \in 1..Len(seen.base) : seen.base[j] = ValS(1)

\* C2 (set law): a set at a valid index returns; the result has the size of
\* the operand, holds x at index i, and at every other index what the
\* operand held.
C2_SetLaw ==
  (last.op = "set" /\ last.i >= 0 /\ last.i < prev.size) =>
     /\ last.ok
     /\ cur.size = prev.size
     /\ Get(heap, cur, last.i) = ValS(last.x)
     /\ \A j \in 0..(prev.size - 1) :
          j # last.i => Get(heap, cur, j) = seen.prev[j + 1]

\* a set of the value 1 at a trie index of a vector of height 2 or more
C2_Witness ==
  /\ Did("set")
  /\ last.x = 1
  /\ last.i < TailOffset(prev)
  /\ prev.shift >= SHIFT
  /\ Get(heap, prev, last.i) = ValS(0)
  /\ Get(heap, cur, last.i) = ValS(1)

\* C3 (push law): every push returns a vector one longer than its operand,
\* which holds x at the index `size of the operand` and at every lower index
\* what the operand held.
C3_PushLaw ==
  last.op = "push" =>
     /\ last.ok
     /\ cur.size = prev.size + 1
     /\ Get(heap, cur, prev.size) = ValS(last.x)
     /\ \A j \in 0..(prev.size - 1) : Get(heap, cur, j) = seen.prev[j + 1]

\* C4 (pop law): a pop of a vector that is not empty returns a vector one
\* shorter, which holds at every index what the operand held; the four cases
\* of pop are told apart by the size and the shift of the operand.
C4_PopLaw ==
  (last.op = "pop" /\ prev.size > 0) =>
     /\ last.ok
     /\ cur.size = prev.size - 1
     /\ \A j \in 0..(prev.size - 2) : Get(heap, cur, j) = seen.prev[j + 1]

\* a pop that lowered a trie of height 3 or more, of a vector holding a 1
\* in the leaf that became the tail
C4_Witness ==
  /\ Did("pop")
  /\ cur.shift < prev.shift
  /\ cur.shift >= SHIFT
  /\ \E j \in TailOffset(cur)..(cur.size - 1) : Get(heap, cur, j) = ValS(1)

\* C5 (push/pop round trip): every push returns, and the pop of its result
\* is a vector that isEqualTo the operand of the push.
C5_RoundTrip ==
  /\ last.op = "push" => last.ok
  /\ last.rt => IsEqualTo(heap, cur, base) /\ ref.cur = ref.base

\* C6 (iteration agrees with get): on every vector the caller holds, the
\* size first calls of next() of a fresh iterator are not done and yield
\* get(0), get(1), ... in that order, the two calls after them are done, and
\* toArray returns the same values.
C6_IterationAgreesWithGet ==
  LET c == Iterator(heap, cur)
      rs == Calls(c.h, c.it, cur.size + 2)
  IN  /\ c.ok
      /\ \A k \in 1..cur.size :
           rs[k] = [done |-> FALSE, value |-> Get(heap, cur, k - 1)]
      /\ rs[cur.size + 1].done
      /\ rs[cur.size + 2].done
      /\ Did("toArray") => out = Gets(heap, cur)

\* toArray of a vector of BRANCHING_FACTOR^2 + BRANCHING_FACTOR + 1 elements
\* that holds a 1 behind the first leaf
C6_Witness ==
  /\ Did("toArray")
  /\ cur.size = (BRANCHING_FACTOR * BRANCHING_FACTOR) + BRANCHING_FACTOR + 1
  /\ Len(out) = cur.size
  /\ \E j \in (BRANCHING_FACTOR + 1)..Len(out) : out[j] = ValS(1)

\* indices out of the range of v
BadIdx(v) == {-2, -1, v.size, v.size + 1, v.size + 50}

\* a heap without any array: an operation that reads an array of it fails
NoHeap == <<>>

\* C7 (errors have no effect): on every vector the caller holds, get and set
\* at an index below 0 or not below the size throw, and pop of an empty
\* vector throws; they do so on a heap that holds no array at all, so before
\* any read of the trie or the tail; the call allocates nothing, writes
\* nothing, and the caller is left with the vector it had.
C7_ErrorsNoEffect ==
  /\ \A i \in BadIdx(cur) :
       /\ Get(heap, cur, i) = Thrown
       /\ Get(NoHeap, cur, i) = Thrown
       /\ \A x \in Vals : /\ Set(heap, cur, i, x) = Fail(heap, cur)
                          /\ Set(NoHeap, cur, i, x) = Fail(NoHeap, cur)
  /\ cur.size = 0 => Pop(heap, cur) = Fail(heap, cur) /\ Pop(NoHeap, cur) = Fail(NoHeap, cur)
  /\ (\/ last.op \in {"get", "set"} /\ (last.i < 0 \/ last.i >= prev.size)
      \/ last.op = "pop" /\ prev.size = 0) =>
       /\ ~last.ok
       /\ last.alloc = 0
       /\ last.dirty = 0
       /\ cur = prev
       /\ Gets(heap, cur) = seen.prev
  /\ (last.op = "get" /\ ~last.ok) => out = <<Thrown>>

\* a set at the index `size` of a vector with a trie has thrown
C7_Witness ==
  /\ last.op = "set"
  /\ ~last.ok
  /\ last.i = prev.size
  /\ prev.size > UPPER_BOUND
  /\ cur = prev

RECURSIVE PathCloned(_, _, _, _, _)
\* a and b are arrays and different objects; at every slot but the one on
\* the way to index i they hold the same value (for nodes: the same object);
\* and so on down that slot, to the leaves, which differ at most at slot
\* i & MASK
PathCloned(h, a, b, i, level) ==
  /\ a.k = "ref"
  /\ b.k = "ref"
  /\ a.v # b.v
  /\ Len(h[a.v]) = Len(h[b.v])
  /\ LET sub == IF level > 0 THEN AndMask(Shr(i, level)) ELSE AndMask(i)
     IN  /\ \A k \in 0..(Len(h[a.v]) - 1) :
               k # sub => ARead(h[a.v], k) = ARead(h[b.v], k)
         /\ level > 0 =>
              PathCloned(h, ARead(h[a.v], sub), ARead(h[b.v], sub), i, level - SHIFT)

\* C8 (structural sharing on set): a set that returned at a trie index
\* allocated exactly `height` arrays, every node on the way to the index is a
\* new object, every slot off that way holds the object the operand holds
\* there, and the tail is the operand's; a set at a tail index allocated one
\* array, the new tail, and the root is the operand's.
C8_SetSharing ==
  Did("set") =>
    IF last.i >= TailOffset(prev)
    THEN /\ last.alloc = 1
         /\ cur.root = prev.root
         /\ PathCloned(heap, prev.tail, cur.tail, last.i, 0)
    ELSE /\ last.alloc = Height(prev)
         /\ cur.tail = prev.tail
         /\ PathCloned(heap, prev.root, cur.root, last.i, prev.shift)

\* a set at a trie index of a vector of height 3, not under the first slot
\* of the root
C8_Witness ==
  /\ Did("set")
  /\ last.i < TailOffset(prev)
  /\ prev.shift = 2 * SHIFT
  /\ last.alloc = 3
  /\ AndMask(Shr(last.i, prev.shift)) = 1
  /\ Index(heap, prev.root, 0) = Index(heap, cur.root, 0)
  /\ Index(heap, prev.root, 1) # Index(heap, cur.root, 1)

\* C9 (reference-list equivalence): every push and every concat returns, as
\* does every pop of a vector that is not empty and every set at a valid
\* index; toArray of the vector the caller holds is the ordinary array the
\* same calls built, and its size is that array's length.
C9_ReferenceList ==
  /\ last.op \in {"push", "concat"} => last.ok
  /\ (last.op = "pop" /\ prev.size > 0) => last.ok
  /\ (last.op = "set" /\ last.i >= 0 /\ last.i < prev.size) => last.ok
  /\ ToArray(heap, cur) = RefSeq(ref.cur)
  /\ cur.size = Len(ref.cur)

\* the vectors the caller holds, each with the ordinary array of its elements
Held == {<<cur, ref.cur>>, <<prev, ref.prev>>, <<base, ref.base>>}

C11_PeekNeverFails ==
  /\ Peek(heap, cur).k # "err"
  /\ cur.size > 0 => /\ Peek(heap, cur) = Get(heap, cur, cur.size - 1)
                     /\ Peek(heap, cur) = ValS(ref.cur[Len(ref.cur)])
  /\ cur.size = 0 => Peek(heap, cur) = Null
  /\ last.op = "peek" =>
       /\ last.ok
       /\ last.alloc = 0
       /\ last.dirty = 0
       /\ cur = prev
       /\ out = <<Peek(heap, cur)>>

\* peek of the empty vector has returned null
C11_Witness ==
  /\ Did("peek")
  /\ cur.size = 0
  /\ out = <<Null>>

\* push is made on v with a full tail and a trie that has room left
Absorbs(v) == TailSize(v) = BRANCHING_FACTOR /\ v.size > BRANCHING_FACTOR /\ ~Grows(v)

RECURSIVE LeafPlaced(_, _, _, _, _, _)
\* b is a new object; at every slot but the one on the way to index i it
\* holds what a holds; above the parents of the leaves, the same is true one
\* level down that slot, and where a has no node there (a slot never used, or
\* emptied by a pop) b has a chain of nodes with nothing but a first slot;
\* the parent of the leaves holds the array `tail` itself at the slot of i
LeafPlaced(h, a, b, i, level, tail) ==
  /\ b.k = "ref"
  /\ a.k = "ref" => a.v # b.v
  /\ LET sub == AndMask(Shr(i, level))
         old == IF a.k = "ref" THEN h[a.v] ELSE NewArray(BRANCHING_FACTOR)
     IN  /\ Len(h[b.v]) = BRANCHING_FACTOR
         /\ \A k \in 0..(BRANCHING_FACTOR - 1) :
              k # sub => ARead(h[b.v], k) = ARead(old, k)
         /\ IF level > SHIFT
            THEN LeafPlaced(h, ARead(old, sub), ARead(h[b.v], sub), i, level - SHIFT, tail)
            ELSE ARead(h[b.v], sub) = tail

\* C12 (tail absorption without growth): a push on a vector with a full
\* tail, more than BRANCHING_FACTOR elements and room left in its trie
\* returns a vector one longer, of the same shift, whose tail is [x] and whose
\* trie holds the old tail array at the next leaf slot, under new nodes on the
\* way to that slot and the old nodes everywhere else.
C12_TailAbsorption ==
  (last.op = "push" /\ Absorbs(prev)) =>
     /\ last.ok
     /\ cur.size = prev.size + 1
     /\ cur.shift = prev.shift
     /\ cur.tail.k = "ref"
     /\ heap[cur.tail.v] = <<ValS(last.x)>>
     /\ LeafPlaced(heap, prev.root, cur.root, prev.size - 1, prev.shift, prev.tail)

\* the arrays a walk from v meets
ArraysOf(h, v) ==
  LET met == Reachable(h, VecRoots(v)).order
  IN  {met[j] : j \in 1..Len(met)}

RECURSIVE FreshPath(_, _, _, _, _)
\* s is a chain of levels / SHIFT nodes, none of them in `old`, each with
\* BRANCHING_FACTOR slots of which only the first is set, ending in `tail`
FreshPath(h, s, levels, tail, old) ==
  IF levels > 0
  THEN /\ s.k = "ref"
       /\ s.v \notin old
       /\ Len(h[s.v]) = BRANCHING_FACTOR
       /\ \A k \in 1..(BRANCHING_FACTOR - 1) : ARead(h[s.v], k) = Undef
       /\ FreshPath(h, ARead(h[s.v], 0), levels - SHIFT, tail, old)
  ELSE s = tail

\* the trie of v holds as many elements as a trie of its height can
TrieFull(v) == v.size - BRANCHING_FACTOR = BRANCHING_FACTOR ^ Height(v)

\* C13 (height growth rule): a push on a vector with a full tail and more
\* than BRANCHING_FACTOR elements grows the trie exactly when the trie is
\* full at its height, which is what the comparison of push decides; a push
\* that grows returns, adds SHIFT to shift, and its root is a new array that
\* holds the old root itself at slot 0, at slot 1 a chain of new nodes of the
\* old height down to the old tail array, and nothing at the other slots;
\* after any other such push the shift is the old one.
C13_GrowthRule ==
  (last.op = "push" /\ TailSize(prev) = BRANCHING_FACTOR /\ prev.size > BRANCHING_FACTOR) =>
     /\ Grows(prev) <=> TrieFull(prev)
     /\ (cur.shift # prev.shift) <=> TrieFull(prev)
     /\ TrieFull(prev) =>
          /\ last.ok
          /\ cur.size = prev.size + 1
          /\ cur.shift = prev.shift + SHIFT
          /\ cur.root.k = "ref"
          /\ cur.root.v \notin ArraysOf(heap, prev)
          /\ Len(heap[cur.root.v]) = BRANCHING_FACTOR
          /\ Index(heap, cur.root, 0) = prev.root
          /\ FreshPath(heap, Index(heap, cur.root, 1), prev.shift, prev.tail,
                       ArraysOf(heap, prev))
          /\ \A k \in 2..(BRANCHING_FACTOR - 1) : Index(heap, cur.root, k) = Undef
          /\ last.alloc = 2 + (prev.shift \div SHIFT)

\* a push has grown a trie of height 2 to height 3
C13_Witness ==
  /\ Did("push")
  /\ prev.shift = SHIFT
  /\ cur.shift = 2 * SHIFT
  /\ TrieFull(prev)
  /\ Index(heap, cur.root, 0) = prev.root
  /\ Index(heap, Index(heap, cur.root, 1), 0) = prev.tail

RECURSIVE Leftmost(_, _, _)
\* the value at the bottom of the leftmost spine, `levels` deep, under s
Leftmost(h, s, levels) ==
  IF levels > 0 THEN Leftmost(h, Index(h, s, 0), levels - SHIFT) ELSE s

\* C14 (height shrink rule): a pop of a vector of one element returns the
\* shared empty vector.  A pop of a longer vector whose tail holds one
\* element returns, and (a) when BRANCHING_FACTOR elements are left, the
\* result has shift 0, a new empty root, and the old root as its tail;
\* (b) else when the elements left in the trie are 1 << shift, the result has
\* the old root's slot 0 as its root, the leaf at the bottom of the leftmost
\* spine under the old root's slot 1 as its tail, and shift less SHIFT;
\* (c) else the shift is the old one, the tail is the last leaf of the old
\* trie, and that leaf is no longer in the trie of the result.
C14_ShrinkRule ==
  last.op = "pop" =>
    /\ prev.size = 1 => last.ok /\ cur = EMPTY_VEC
    /\ (prev.size > 1 /\ TailSize(prev) = 1) =>
         LET left == prev.size - 1 - BRANCHING_FACTOR
         IN  /\ last.ok
             /\ cur.size = prev.size - 1
             /\ IF left = 0
                THEN /\ cur.shift = 0
                     /\ prev.shift = 0
                     /\ cur.root.k = "ref"
                     /\ heap[cur.root.v] = <<>>
                     /\ cur.root.v \notin ArraysOf(heap, prev)
                     /\ cur.tail = prev.root
                ELSE IF left = 2 ^ prev.shift
                THEN /\ cur.shift = prev.shift - SHIFT
                     /\ cur.root = Index(heap, prev.root, 0)
                     /\ cur.tail = Leftmost(heap, Index(heap, prev.root, 1), cur.shift)
                     /\ cur.tail.k = "ref"
                     /\ last.alloc = 0
                ELSE /\ cur.shift = prev.shift
                     /\ cur.tail = Walk(heap, prev.root, left, prev.shift)
                     /\ cur.tail.k = "ref"
                     /\ Reachable(heap, <<cur.root>>).pos[cur.tail.v] = 0

\* a pop has lowered a trie of height 3 or more to one with a node as root
C14_Witness ==
  /\ Did("pop")
  /\ TailSize(prev) = 1
  /\ prev.shift >= 2 * SHIFT
  /\ prev.size - 1 - BRANCHING_FACTOR = 2 ^ prev.shift
  /\ cur.shift = prev.shift - SHIFT
  /\ cur.root = Index(heap, prev.root, 0)

\* C15 (tail-length invariant): the tail of every vector the caller holds is
\* an array of size - tailOffset slots, which is between 1 and
\* BRANCHING_FACTOR and is what #tailSize computes, when the vector is not
\* empty, and of no slot when it is; so also after a pop that made a leaf of
\* the trie, or the former root, the tail.
C15_TailLength ==
  \A v \in {cur, prev, base} :
     /\ v.tail.k = "ref"
     /\ LET n == Len(heap[v.tail.v])
        IN  IF v.size = 0 THEN n = 0
            ELSE /\ n = v.size - TailOffset(v)
                 /\ n = TailSize(v)
                 /\ 1 <= n
                 /\ n <= BRANCHING_FACTOR

\* a pop has made a leaf of a trie of height 2 or more the tail
C15_Witness ==
  /\ Did("pop")
  /\ TailSize(prev) = 1
  /\ prev.shift >= SHIFT
  /\ cur.shift = prev.shift
  /\ Len(heap[cur.tail.v]) = BRANCHING_FACTOR
  /\ cur.tail = Walk(heap, prev.root, cur.size - BRANCHING_FACTOR, prev.shift)

RECURSIVE Resolves(_, _, _, _)
\* the descent of get from the value s at `level` to index i meets an array
\* at every step and ends in a leaf of BRANCHING_FACTOR element values
Resolves(h, s, i, level) ==
  /\ s.k = "ref"
  /\ IF level > 0
     THEN Resolves(h, ARead(h[s.v], AndMask(Shr(i, level))), i, level - SHIFT)
     ELSE /\ Len(h[s.v]) = BRANCHING_FACTOR
          /\ \A k \in 1..BRANCHING_FACTOR : h[s.v][k].k = "val"

RECURSIVE GapsBeyond(_, _, _, _, _)
\* in the node s at `level`, whose first index is `first`, and in every node
\* under it, a slot that is unset or null covers only indices from `limit` on
GapsBeyond(h, s, first, level, limit) ==
  level > 0 =>
    \A k \in 0..(BRANCHING_FACTOR - 1) :
       LET slot == Index(h, s, k)
       IN  IF slot.k = "ref"
           THEN GapsBeyond(h, slot, first + (k * (2 ^ level)), level - SHIFT, limit)
           ELSE first + (k * (2 ^ level)) >= limit

\* C16 (trie addressing invariant): in every vector the caller holds, every
\* index below tailOffset resolves through the root: the descent from level
\* shift to 0 by the slot (i >>> level) & MASK meets a node at every step and
\* ends in a leaf of exactly BRANCHING_FACTOR elements; a slot of the trie
\* that is unset or null covers only indices from tailOffset on.
C16_TrieAddressing ==
  \A v \in {cur, prev, base} :
     /\ \A i \in 0..(TailOffset(v) - 1) : Resolves(heap, v.root, i, v.shift)
     /\ v.size > BRANCHING_FACTOR => GapsBeyond(heap, v.root, 0, v.shift, TailOffset(v))

\* a pop has left a null slot in a trie of height 3 or more
C16_Witness ==
  /\ Did("pop")
  /\ cur.shift >= 2 * SHIFT
  /\ cur.shift = prev.shift
  /\ TailOffset(cur) > BRANCHING_FACTOR * BRANCHING_FACTOR
  /\ \E a \in ArraysOf(heap, cur) : \E j \in 1..Len(heap[a]) : heap[a][j] = Null
  /\ \A i \in 0..(TailOffset(cur) - 1) : Resolves(heap, cur.root, i, cur.shift)

\* C17 (shift invariant): the shift of every vector the caller holds is a
\* non-negative multiple of SHIFT, no call but concat, which pushes several
\* times, changes it by anything but SHIFT up or down, and a trie of that height has room for all the elements below
\* tailOffset: BRANCHING_FACTOR ^ (shift / SHIFT + 1) >= tailOffset.
C17_ShiftInvariant ==
  /\ \A v \in {cur, prev, base} :
       /\ v.shift >= 0
       /\ v.shift % SHIFT = 0
       /\ BRANCHING_FACTOR ^ Height(v) >= TailOffset(v)
  /\ last.op # "concat" => cur.shift - prev.shift \in {0 - SHIFT, 0, SHIFT}

\* a push has filled the last leaf slot of a trie of height 3
C17_Witness ==
  /\ Did("push")
  /\ cur.shift = 2 * SHIFT
  /\ prev.shift = cur.shift
  /\ TailOffset(cur) = BRANCHING_FACTOR ^ Height(cur)
  /\ TailOffset(prev) < TailOffset(cur)

\* the shift a vector of `size` elements has, whatever calls made it
CanonicalShift(size, shift) ==
  IF size <= UPPER_BOUND THEN shift = 0
  ELSE LET tailOffset == AndNotMask(size - 1)
       IN  /\ BRANCHING_FACTOR ^ (shift \div SHIFT) < tailOffset
           /\ tailOffset <= BRANCHING_FACTOR ^ ((shift \div SHIFT) + 1)

\* C18 (canonical height): the shift of every vector the caller holds is
\* decided by its size alone: 0 up to 2 * BRANCHING_FACTOR elements, and
\* above that shift / SHIFT + 1 is the least height h with
\* BRANCHING_FACTOR ^ h >= tailOffset; two vectors of one size have one shift.
C18_CanonicalHeight ==
  /\ \A v \in {cur, prev, base} : CanonicalShift(v.size, v.shift)
  /\ \A v \in {cur, prev, base}, w \in {cur, prev, base} :
       v.size = w.size => v.shift = w.shift

\* a push has grown a trie of height 2 or more and the pop after it has
\* lowered it to the height it had
C18_Witness ==
  /\ last.rt
  /\ last.ok
  /\ base.shift >= SHIFT
  /\ prev.shift = base.shift + SHIFT
  /\ cur.shift = base.shift
  /\ cur.size = base.size

\* C19 (cursor independence): every iterator the caller holds, whatever
\* calls of next on it and on the others, and of push, pop and set on the
\* vector, were made since it was made, has yielded the elements its vector
\* had when it was made, in index order, one for every position it has
\* passed, and says done only past the last; that vector still returns the
\* same elements; the stack of an iterator is an array of its own, which no
\* vector, no node and no other iterator refers to; a call of next has written into no
\* array but the stack of its own iterator, and no other call has written
\* into any array that was there before it.
C19_CursorIndependence ==
  /\ LET held == {cur, prev, base} \cup {its[j].over : j \in 1..Len(its)}
     IN  \A k \in 1..Len(its) :
           LET c == its[k]
           IN  /\ c.it.index = Len(c.got)
               /\ Len(c.got) <= Len(c.want)
               /\ c.got = SubSeq(c.want, 1, Len(c.got))
               /\ c.done => c.got = c.want
               /\ c.it.size = c.over.size
               /\ Gets(heap, c.over) = c.want
               /\ c.it.stack.k = "ref"
               /\ \A v \in held : c.it.stack # v.root /\ c.it.stack # v.tail
               /\ \A a \in 1..Len(heap) : \A j \in 1..Len(heap[a]) : heap[a][j] # c.it.stack
               /\ \A j \in 1..Len(its) : j # k => c.it.stack # its[j].it.stack
  /\ last.dirty = 0
  /\ last.op \in {"next", "iterator"} => last.ok
  /\ last.op = "next" => last.alloc = 0

\* two iterators over one vector of height 3 or more, the first past a
\* boundary of BRANCHING_FACTOR^2 positions, the second behind it in
\* another leaf, and the last call a next
C19_Witness ==
  /\ Len(its) = 2
  /\ last.op = "next"
  /\ its[1].over = its[2].over
  /\ its[1].over.shift >= 2 * SHIFT
  /\ its[1].it.index > BRANCHING_FACTOR * BRANCHING_FACTOR
  /\ its[2].it.index > BRANCHING_FACTOR
  /\ its[2].it.index < BRANCHING_FACTOR * BRANCHING_FACTOR
  /\ its[1].it.leaf # its[2].it.leaf

\* an iterator past the first leaf of a vector of height 3 or more, and a
\* set on that vector at the position the iterator is at
C19_WitnessDerived ==
  /\ Len(its) = 1
  /\ Did("set")
  /\ its[1].over = prev
  /\ prev.shift >= 2 * SHIFT
  /\ its[1].it.index > BRANCHING_FACTOR
  /\ last.i = its[1].it.index
  /\ last.i < TailOffset(prev)

RECURSIVE NodeAbove(_, _, _, _, _)
\* the node at level `stop` on the way from s, at `level`, to index i
NodeAbove(h, s, i, level, stop) ==
  IF level > stop
  THEN NodeAbove(h, Index(h, s, AndMask(Shr(i, level))), i, level - SHIFT, stop)
  ELSE s

\* the array of v that holds index i: the tail from tailOffset on, else the
\* leaf of the trie
LeafOf(h, v, i) ==
  IF i >= TailOffset(v) THEN v.tail ELSE Walk(h, v.root, i, v.shift)

\* the position of the element the iterator of c yielded last (0 before the
\* first call of next)
Position(c) == IF c.it.index = 0 THEN 0 ELSE c.it.index - 1

\* the last call of next on the iterator of c changed entry e of its stack
Rewritten(c, e) == heap[c.it.stack.v][e + 1] # c.before[e + 1]

\* what holds of the leaf and the stack of every iterator whichever way the
\* crossing into the tail is read
CacheValid(c) ==
  LET n == c.over.shift \div SHIFT
      stack == heap[c.it.stack.v]
      p == Position(c)
  IN  /\ Len(stack) = n
      /\ Len(c.before) = n
      /\ c.over.size > 0 => c.it.leaf = LeafOf(heap, c.over, p)
      /\ p < TailOffset(c.over) =>
           \A e \in 0..(n - 1) :
              stack[e + 1] = NodeAbove(heap, c.over.root, p, c.over.shift, (e + 1) * SHIFT)
      /\ (p > 0 /\ p < TailOffset(c.over)) => p % (BRANCHING_FACTOR ^ (n + 1)) # 0
      /\ p % BRANCHING_FACTOR # 0 => \A e \in 0..(n - 1) : ~Rewritten(c, e)

\* C20 (cursor cache invariant), as it holds: when next has yielded the
\* element at position p, the leaf of the iterator is the array that holds
\* p (the leaf of the trie below tailOffset, the tail from there on), and
\* for p below tailOffset entry k of the stack is the node k + 1 levels above
\* that leaf; the call that crossed into the trie leaf starting at p
\* rewrote entry k exactly when p is a multiple of
\* BRANCHING_FACTOR ^ (k + 2), reading an entry that is there; the call that
\* crossed into the tail, and a call within a leaf, rewrote no entry.
C20_CursorCache ==
  \A k \in 1..Len(its) :
     LET c == its[k]
         p == Position(c)
     IN  /\ CacheValid(c)
         /\ \A e \in 0..((c.over.shift \div SHIFT) - 1) :
              Rewritten(c, e) <=>
                (p > 0 /\ p < TailOffset(c.over) /\ p % (BRANCHING_FACTOR ^ (e + 2)) = 0)

\* an iterator over a vector of height 4 has crossed into the leaf at
\* position BRANCHING_FACTOR ^ 3 and rewritten entries 0 and 1 of its stack,
\* not entry 2
C20_Witness ==
  /\ last.op = "next"
  /\ \E k \in 1..Len(its) :
       /\ its[k].over.shift = 3 * SHIFT
       /\ Position(its[k]) = BRANCHING_FACTOR ^ 3
       /\ Position(its[k]) < TailOffset(its[k].over)
       /\ Rewritten(its[k], 0)
       /\ Rewritten(its[k], 1)
       /\ ~Rewritten(its[k], 2)
       /\ its[k].it.leaf = Walk(heap, its[k].over.root, Position(its[k]), its[k].over.shift)

\* C20 as stated: as above, but on every crossing of a leaf boundary at a
\* position p, the crossing into the tail included, entry k of the stack is
\* rewritten exactly when p is a multiple of BRANCHING_FACTOR ^ (k + 2).
C20_AsStated ==
  \A k \in 1..Len(its) :
     LET c == its[k]
         p == Position(c)
     IN  /\ CacheValid(c)
         /\ \A e \in 0..((c.over.shift \div SHIFT) - 1) :
              Rewritten(c, e) <=>
                (p > 0 /\ ~c.done /\ p % (BRANCHING_FACTOR ^ (e + 2)) = 0)

====
